---- MODULE Spec2Model ----
(***************************************************************************)
(* Planet Wars behaviour-tree bot: the helpers, Actions and Checks of      *)
(* behavior_tree_bot/behaviors.py and checks.py and the tree assembled by  *)
(* bt_bot.py, evaluated over one turn's state view.                        *)
(*                                                                         *)
(* A state view is the triple (planets, fleets, dist).  Planets are held   *)
(* in a sequence; a planet's ID is its index, and None (no planet) is 0.   *)
(* A call of an Action or a Check returns a                                *)
(* record: ret (the boolean returned), orders (the orders handed to        *)
(* issue_order, in order), raised (the call ended in a Python exception).  *)
(* Real-valued results are exact rationals <<numerator, denominator>>.     *)
(***************************************************************************)
EXTENDS Integers, Sequences, FiniteSets, TLC

VARIABLES planets, fleets, dist, last

vars == <<planets, fleets, dist, last>>

\* ---- bounds of the state views ------------------------------------------
MaxDist == 2
MaxFleets == 2

PlanetIDs == {1, 2, 3}
None == 0
ME == "me"
ENEMY == "enemy"
NEUTRAL == "neutral"

\* ---- exact rationals ----------------------------------------------------
RECURSIVE GCD(_, _)
GCD(a, b) == IF b = 0 THEN a ELSE GCD(b, a % b)

Abs(x) == IF x < 0 THEN -x ELSE x

Rat(n, d) ==
    LET g == GCD(Abs(n), d)
    IN  IF n = 0 THEN <<0, 1>> ELSE <<n \div g, d \div g>>

RatAdd(a, b) == Rat(a[1] * b[2] + b[1] * a[2], a[2] * b[2])

RatGT(a, b) == a[1] * b[2] > b[1] * a[2]

\* ---- sequences ----------------------------------------------------------
RECURSIVE SumSeq(_)
SumSeq(s) == IF s = <<>> THEN 0 ELSE Head(s) + SumSeq(Tail(s))

RECURSIVE Filter(_, _)
Filter(s, keep) ==
    IF s = <<>> THEN <<>>
    ELSE IF Head(s) \in keep THEN <<Head(s)>> \o Filter(Tail(s), keep)
         ELSE Filter(Tail(s), keep)

Range(s) == {s[i] : i \in DOMAIN s}

\* Python's max(seq, key=...): the first element whose key is greatest.
PyMax(s, key) ==
    s[CHOOSE i \in DOMAIN s :
        /\ \A j \in DOMAIN s : key[s[j]] <= key[s[i]]
        /\ \A j \in 1..(i - 1) : key[s[j]] < key[s[i]]]

\* Python's min(seq, key=...): the first element whose key is least.
PyMin(s, key) ==
    s[CHOOSE i \in DOMAIN s :
        /\ \A j \in DOMAIN s : key[s[j]] >= key[s[i]]
        /\ \A j \in 1..(i - 1) : key[s[j]] > key[s[i]]]

\* ---- the state view (planet_wars.PlanetWars accessors) ------------------
IDSeq(state) == [i \in 1..Len(state.planets) |-> i]

my_planets(state) ==
    Filter(IDSeq(state), {i \in DOMAIN state.planets : state.planets[i].owner = ME})

enemy_planets(state) ==
    Filter(IDSeq(state), {i \in DOMAIN state.planets : state.planets[i].owner = ENEMY})

neutral_planets(state) ==
    Filter(IDSeq(state), {i \in DOMAIN state.planets : state.planets[i].owner = NEUTRAL})

FleetIdx(state) == [i \in 1..Len(state.fleets) |-> i]

\* Indices into state.fleets, in list order.
my_fleets(state) ==
    Filter(FleetIdx(state), {i \in DOMAIN state.fleets : state.fleets[i].owner = ME})

enemy_fleets(state) ==
    Filter(FleetIdx(state), {i \in DOMAIN state.fleets : state.fleets[i].owner = ENEMY})

distance(state, a, b) == state.dist[a][b]

num_ships(state) == [i \in DOMAIN state.planets |-> state.planets[i].num_ships]

\* ---- call results -------------------------------------------------------
Returned(b) == [ret |-> b, orders |-> <<>>, raised |-> FALSE]

Raised == [ret |-> FALSE, orders |-> <<>>, raised |-> TRUE]

\* planet_wars.issue_order: writes the order line and returns True.
issue_order(state, src, dst, n) ==
    [ret |-> TRUE, orders |-> <<[src |-> src, dst |-> dst, ships |-> n]>>, raised |-> FALSE]

\* ---- behaviors.py: helpers ----------------------------------------------
get_strongest_planet(state) ==
    IF my_planets(state) = <<>> THEN None
    ELSE PyMax(my_planets(state), num_ships(state))

get_weakest_planet(state, ps) ==
    IF ps = <<>> THEN None ELSE PyMin(ps, num_ships(state))

get_closest_planet(state, source_planet, ps) ==
    IF source_planet = None \/ ps = <<>> THEN None
    ELSE PyMin(ps, [p \in DOMAIN state.planets |-> distance(state, source_planet, p)])

\* sum(planets)/len(planets) as an exact rational; 0 when no planet is owned.
average_ally_power(state) ==
    LET mp == my_planets(state)
    IN  IF mp = <<>> THEN <<0, 1>>
        ELSE Rat(SumSeq([i \in DOMAIN mp |-> state.planets[mp[i]].num_ships]), Len(mp))

\* ---- behaviors.py: scoring ----------------------------------------------
\* A score is minus infinity (inf) or the rational q.
NegInf == [inf |-> TRUE, q |-> <<0, 1>>]

Finite(q) == [inf |-> FALSE, q |-> q]

\* Python's a > b on scores.
ScoreGT(a, b) ==
    IF a.inf THEN FALSE
    ELSE IF b.inf THEN TRUE
    ELSE RatGT(a.q, b.q)

\* growth*3.0 + (1/distance)*2.0 - ships*1.5, exactly; the floats of the code
\* are exact too for distances 1, 2 and 4.
calculate_target_score(state, source_planet, target_planet) ==
    IF source_planet = None \/ target_planet = None THEN NegInf
    ELSE LET d == distance(state, source_planet, target_planet)
             t == state.planets[target_planet]
         IN  IF d = 0 THEN NegInf
             ELSE Finite(RatAdd(RatAdd(Rat(t.growth_rate * 3, 1), Rat(2, d)),
                                Rat(-(t.num_ships * 3), 2)))

\* The scan of find_best_*_target: keep the strictly greatest score so far.
RECURSIVE ScanBest(_, _, _, _, _)
ScanBest(state, source_planet, cands, best_score, best_target) ==
    IF cands = <<>> THEN best_target
    ELSE LET planet == Head(cands)
             score == calculate_target_score(state, source_planet, planet)
         IN  IF ScoreGT(score, best_score)
             THEN ScanBest(state, source_planet, Tail(cands), score, planet)
             ELSE ScanBest(state, source_planet, Tail(cands), best_score, best_target)

\* The scan replacing the best on score >= best_score.
RECURSIVE ScanBestGE(_, _, _, _, _)
ScanBestGE(state, source_planet, cands, best_score, best_target) ==
    IF cands = <<>> THEN best_target
    ELSE LET planet == Head(cands)
             score == calculate_target_score(state, source_planet, planet)
         IN  IF ~ScoreGT(best_score, score)
             THEN ScanBestGE(state, source_planet, Tail(cands), score, planet)
             ELSE ScanBestGE(state, source_planet, Tail(cands), best_score, best_target)

find_best_enemy_target_ge(state, source_planet) ==
    IF source_planet = None THEN None
    ELSE ScanBestGE(state, source_planet, enemy_planets(state), NegInf, None)

find_best_enemy_target(state, source_planet) ==
    IF source_planet = None THEN None
    ELSE ScanBest(state, source_planet, enemy_planets(state), NegInf, None)

find_best_neutral_target(state, source_planet) ==
    IF source_planet = None THEN None
    ELSE ScanBest(state, source_planet, neutral_planets(state), NegInf, None)

\* ---- behaviors.py: danger level -----------------------------------------
\* Enemy fleets (indices) whose destination is the planet, in list order.
incoming_fleets(state, planet) ==
    Filter(enemy_fleets(state),
           {i \in DOMAIN state.fleets : state.fleets[i].destination_planet = planet})

\* One fleet's term: (1/(turns+1))*5.0 + (ships/(ships+100))*3.0.
FleetTerm(f) ==
    RatAdd(Rat(5, f.turns_remaining + 1), Rat(3 * f.num_ships, f.num_ships + 100))

\* The loop over the enemy planets: score += dist*3.0 + ships*1.0.
RECURSIVE PlanetSum(_, _, _)
PlanetSum(state, planet, eps) ==
    IF eps = <<>> THEN 0
    ELSE 3 * distance(state, Head(eps), planet) + state.planets[Head(eps)].num_ships
         + PlanetSum(state, planet, Tail(eps))

\* The fleet loop only binds normalized_dist / normalized_ships; the single
\* "score +=" after it uses the values left by the last incoming fleet, and
\* finds them unbound (UnboundLocalError) when no fleet is incoming.
danger_level(state, planet) ==
    LET inc == incoming_fleets(state, planet)
    IN  IF inc = <<>> THEN [raised |-> TRUE, value |-> <<0, 1>>]
        ELSE [raised |-> FALSE,
              value |-> RatAdd(FleetTerm(state.fleets[inc[Len(inc)]]),
                               Rat(PlanetSum(state, planet, enemy_planets(state)), 1))]

\* Planet records carry num_ships, not ships: the comprehension's p.ships
\* raises AttributeError on the first owned planet.
deployable_planets(state) ==
    LET power == average_ally_power(state)
    IN  IF my_planets(state) = <<>> THEN Returned(TRUE) ELSE Raised

\* ---- behaviors.py: attack and expansion Actions -------------------------
\* attack_weakest_enemy_planet with the reserve test inverted.
attack_weakest_inverted(state) ==
    LET strongest_planet == get_strongest_planet(state)
        weakest_enemy == get_weakest_planet(state, enemy_planets(state))
    IN  IF strongest_planet = None THEN Returned(FALSE)
        ELSE IF weakest_enemy = None THEN Returned(FALSE)
        ELSE LET required_ships == state.planets[weakest_enemy].num_ships + 1
             IN  IF state.planets[strongest_planet].num_ships < required_ships + 10
                 THEN issue_order(state, strongest_planet, weakest_enemy, required_ships)
                 ELSE Returned(FALSE)

attack_weakest_enemy_planet(state) ==
    LET strongest_planet == get_strongest_planet(state)
        weakest_enemy == get_weakest_planet(state, enemy_planets(state))
    IN  IF strongest_planet = None THEN Returned(FALSE)
        ELSE IF weakest_enemy = None THEN Returned(FALSE)
        ELSE LET required_ships == state.planets[weakest_enemy].num_ships + 1
             IN  IF state.planets[strongest_planet].num_ships > required_ships + 10
                 THEN issue_order(state, strongest_planet, weakest_enemy, required_ships)
                 ELSE Returned(FALSE)

\* attack_best_target with a reserve of 10 ships instead of 15.
attack_best_target_margin10(state) ==
    LET strongest_planet == get_strongest_planet(state)
        best_target == find_best_enemy_target(state, strongest_planet)
    IN  IF strongest_planet = None THEN Returned(FALSE)
        ELSE IF state.planets[strongest_planet].num_ships < 10 THEN Returned(FALSE)
        ELSE IF best_target = None THEN Returned(FALSE)
        ELSE LET required_ships == state.planets[best_target].num_ships + 1
             IN  IF state.planets[strongest_planet].num_ships > required_ships + 10
                 THEN issue_order(state, strongest_planet, best_target, required_ships)
                 ELSE Returned(FALSE)

attack_best_target(state) ==
    LET strongest_planet == get_strongest_planet(state)
        best_target == find_best_enemy_target(state, strongest_planet)
    IN  IF strongest_planet = None THEN Returned(FALSE)
        ELSE IF state.planets[strongest_planet].num_ships < 10 THEN Returned(FALSE)
        ELSE IF best_target = None THEN Returned(FALSE)
        ELSE LET required_ships == state.planets[best_target].num_ships + 1
             IN  IF state.planets[strongest_planet].num_ships > required_ships + 15
                 THEN issue_order(state, strongest_planet, best_target, required_ships)
                 ELSE Returned(FALSE)

spread_to_weakest_neutral_planet(state) ==
    LET strongest_planet == get_strongest_planet(state)
        weakest_neutral == get_weakest_planet(state, neutral_planets(state))
    IN  IF strongest_planet = None THEN Returned(FALSE)
        ELSE IF weakest_neutral = None THEN Returned(FALSE)
        ELSE LET required_ships == state.planets[weakest_neutral].num_ships + 1
             IN  IF state.planets[strongest_planet].num_ships > required_ships + 5
                 THEN issue_order(state, strongest_planet, weakest_neutral, required_ships)
                 ELSE Returned(FALSE)

expand_to_valuable_neutral(state) ==
    LET strongest_planet == get_strongest_planet(state)
        best_target == find_best_neutral_target(state, strongest_planet)
    IN  IF strongest_planet = None THEN Returned(FALSE)
        ELSE IF state.planets[strongest_planet].num_ships < 15 THEN Returned(FALSE)
        ELSE IF best_target = None THEN Returned(FALSE)
        ELSE LET required_ships == state.planets[best_target].num_ships + 1
             IN  IF state.planets[strongest_planet].num_ships > required_ships + 10
                 THEN issue_order(state, strongest_planet, best_target, required_ships)
                 ELSE Returned(FALSE)

\* ---- behaviors.py: defence Actions --------------------------------------
\* sum(f.num_ships for f in incoming_fleets)
total_incoming(state, planet) ==
    LET inc == incoming_fleets(state, planet)
    IN  SumSeq([i \in DOMAIN inc |-> state.fleets[inc[i]].num_ships])

\* The owned planets other than my_planet holding more than total + 5 ships.
reinforcing_planets(state, my_planet, total) ==
    Filter(my_planets(state),
           {p \in DOMAIN state.planets :
                p # my_planet /\ state.planets[p].num_ships > total + 5})

\* The loop over state.my_planets(), from the planets ps still to visit: the
\* first planet that passes every test ends the call with its order.
RECURSIVE DefendLoop(_, _)
DefendLoop(state, ps) ==
    IF ps = <<>> THEN Returned(FALSE)
    ELSE LET my_planet == Head(ps)
             total == total_incoming(state, my_planet)
             rs == reinforcing_planets(state, my_planet, total)
             closest_reinforcer == get_closest_planet(state, my_planet, rs)
             ships_to_send == total - state.planets[my_planet].num_ships + 5
         IN  IF /\ incoming_fleets(state, my_planet) # <<>>
                /\ total >= state.planets[my_planet].num_ships
                /\ rs # <<>>
                /\ closest_reinforcer # None
                /\ ships_to_send > 0
                /\ state.planets[closest_reinforcer].num_ships > ships_to_send + 5
             THEN issue_order(state, closest_reinforcer, my_planet, ships_to_send)
             ELSE DefendLoop(state, Tail(ps))

\* The loop of defend_under_attack_planet going on to the next planet after
\* an order instead of returning.
RECURSIVE DefendLoopAll(_, _)
DefendLoopAll(state, ps) ==
    IF ps = <<>> THEN Returned(FALSE)
    ELSE LET my_planet == Head(ps)
             total == total_incoming(state, my_planet)
             rs == reinforcing_planets(state, my_planet, total)
             closest_reinforcer == get_closest_planet(state, my_planet, rs)
             ships_to_send == total - state.planets[my_planet].num_ships + 5
             rest == DefendLoopAll(state, Tail(ps))
         IN  IF /\ incoming_fleets(state, my_planet) # <<>>
                /\ total >= state.planets[my_planet].num_ships
                /\ rs # <<>>
                /\ closest_reinforcer # None
                /\ ships_to_send > 0
                /\ state.planets[closest_reinforcer].num_ships > ships_to_send + 5
             THEN [ret |-> TRUE,
                   orders |-> issue_order(state, closest_reinforcer, my_planet,
                                          ships_to_send).orders \o rest.orders,
                   raised |-> FALSE]
             ELSE rest

defend_every_planet(state) == DefendLoopAll(state, my_planets(state))

\* The loop of defend_under_attack_planet sending the bare deficit, without
\* the safety margin of 5.
RECURSIVE DefendLoopNoMargin(_, _)
DefendLoopNoMargin(state, ps) ==
    IF ps = <<>> THEN Returned(FALSE)
    ELSE LET my_planet == Head(ps)
             total == total_incoming(state, my_planet)
             rs == reinforcing_planets(state, my_planet, total)
             closest_reinforcer == get_closest_planet(state, my_planet, rs)
             ships_to_send == total - state.planets[my_planet].num_ships
         IN  IF /\ incoming_fleets(state, my_planet) # <<>>
                /\ total >= state.planets[my_planet].num_ships
                /\ rs # <<>>
                /\ closest_reinforcer # None
                /\ ships_to_send > 0
                /\ state.planets[closest_reinforcer].num_ships > ships_to_send + 5
             THEN issue_order(state, closest_reinforcer, my_planet, ships_to_send)
             ELSE DefendLoopNoMargin(state, Tail(ps))

defend_no_margin(state) == DefendLoopNoMargin(state, my_planets(state))

defend_under_attack_planet(state) == DefendLoop(state, my_planets(state))

\* The nested loops of reinforce_frontline over (my_planet, enemy_planet)
\* pairs; frontline = None stands for min_distance = inf.
RECURSIVE FrontlineScan(_, _, _, _, _)
FrontlineScan(state, mps, eps, min_distance, frontline) ==
    IF mps = <<>> THEN frontline
    ELSE IF eps = <<>>
         THEN FrontlineScan(state, Tail(mps), enemy_planets(state), min_distance, frontline)
    ELSE LET d == distance(state, Head(mps), Head(eps))
         IN  IF frontline = None \/ d < min_distance
             THEN FrontlineScan(state, mps, Tail(eps), d, Head(mps))
             ELSE FrontlineScan(state, mps, Tail(eps), min_distance, frontline)

Min(a, b) == IF a < b THEN a ELSE b

\* reinforce_frontline keeping 5 ships at the source instead of 10.
reinforce_frontline_keep5(state) ==
    IF enemy_planets(state) = <<>> \/ my_planets(state) = <<>> THEN Returned(FALSE)
    ELSE LET frontline_planet ==
                 FrontlineScan(state, my_planets(state), enemy_planets(state), 0, None)
             rs == Filter(my_planets(state),
                          {p \in DOMAIN state.planets :
                               /\ p # frontline_planet
                               /\ state.planets[p].num_ships
                                      > state.planets[frontline_planet].num_ships + 10})
         IN  IF frontline_planet = None THEN Returned(FALSE)
             ELSE IF rs = <<>> THEN Returned(FALSE)
             ELSE LET strongest_reinforcer == PyMax(rs, num_ships(state))
                      ships_to_send ==
                          Min(state.planets[strongest_reinforcer].num_ships - 5, 20)
                  IN  IF ships_to_send > 5
                      THEN issue_order(state, strongest_reinforcer, frontline_planet,
                                       ships_to_send)
                      ELSE Returned(FALSE)

reinforce_frontline(state) ==
    IF enemy_planets(state) = <<>> \/ my_planets(state) = <<>> THEN Returned(FALSE)
    ELSE LET frontline_planet ==
                 FrontlineScan(state, my_planets(state), enemy_planets(state), 0, None)
             rs == Filter(my_planets(state),
                          {p \in DOMAIN state.planets :
                               /\ p # frontline_planet
                               /\ state.planets[p].num_ships
                                      > state.planets[frontline_planet].num_ships + 10})
         IN  IF frontline_planet = None THEN Returned(FALSE)
             ELSE IF rs = <<>> THEN Returned(FALSE)
             ELSE LET strongest_reinforcer == PyMax(rs, num_ships(state))
                      ships_to_send ==
                          Min(state.planets[strongest_reinforcer].num_ships - 10, 20)
                  IN  IF ships_to_send > 5
                      THEN issue_order(state, strongest_reinforcer, frontline_planet,
                                       ships_to_send)
                      ELSE Returned(FALSE)

\* ---- checks.py ----------------------------------------------------------
ATTACK_SAFETY_RATIO == <<3, 2>>
HARD_ATTACK_RATIO == <<2, 1>>
STRONG_PLANET_THRESHOLD == 20
DANGER_LEVEL_THRESHOLD == 50
FRONTLINE_DISTANCE == 20
FRONTLINE_WEAKNESS_RATIO == <<3, 5>>
EXPANSION_SAFE_DISTANCE == 15
EXPANSION_ENEMY_STRENGTH_RATIO == <<7, 10>>
INCOMING_DANGER_TIME == 10
INCOMING_DANGER_RATIO == <<3, 10>>
EARLY_GAME_PLANET_COUNT == 2

\* n * r for an integer n and a rational r.
Times(n, r) == Rat(n * r[1], r[2])

PlanetShips(state, ps) == SumSeq([i \in DOMAIN ps |-> state.planets[ps[i]].num_ships])

FleetShips(state, fs) == SumSeq([i \in DOMAIN fs |-> state.fleets[fs[i]].num_ships])

if_neutral_planet_available(state) == Returned(neutral_planets(state) # <<>>)

have_largest_fleet(state) ==
    Returned(PlanetShips(state, my_planets(state)) + FleetShips(state, my_fleets(state))
             > PlanetShips(state, enemy_planets(state))
               + FleetShips(state, enemy_fleets(state)))

if_enemy_fleet_incoming(state) ==
    Returned(\E i \in Range(enemy_fleets(state)) :
                 state.fleets[i].destination_planet \in Range(my_planets(state)))

if_strong_enough_to_attack(state) ==
    IF my_planets(state) = <<>> \/ enemy_planets(state) = <<>> THEN Returned(FALSE)
    ELSE LET strongest_planet == PyMax(my_planets(state), num_ships(state))
             weakest_enemy == PyMin(enemy_planets(state), num_ships(state))
         IN  Returned(RatGT(<<state.planets[strongest_planet].num_ships, 1>>,
                            Times(state.planets[weakest_enemy].num_ships,
                                  ATTACK_SAFETY_RATIO)))

if_safe_to_expand(state) ==
    IF my_planets(state) = <<>> THEN Returned(FALSE)
    ELSE LET strongest_planet == PyMax(my_planets(state), num_ships(state))
             strength == state.planets[strongest_planet].num_ships
             danger == Filter(enemy_fleets(state),
                              {i \in DOMAIN state.fleets :
                                   /\ state.fleets[i].destination_planet
                                          \in Range(my_planets(state))
                                   /\ state.fleets[i].turns_remaining
                                          < INCOMING_DANGER_TIME})
         IN  IF \E e \in Range(enemy_planets(state)) :
                    /\ distance(state, strongest_planet, e) < EXPANSION_SAFE_DISTANCE
                    /\ RatGT(<<state.planets[e].num_ships, 1>>,
                             Times(strength, EXPANSION_ENEMY_STRENGTH_RATIO))
             THEN Returned(FALSE)
             ELSE Returned(RatGT(Times(strength, INCOMING_DANGER_RATIO),
                                 <<FleetShips(state, danger), 1>>))

hard_attack(state) ==
    IF Len(my_planets(state)) < 2 THEN Returned(FALSE)
    ELSE Returned(RatGT(<<PlanetShips(state, my_planets(state)), 1>>,
                        Times(PlanetShips(state, enemy_planets(state)),
                              HARD_ATTACK_RATIO)))

if_early_game(state) ==
    Returned(/\ Len(my_planets(state)) <= EARLY_GAME_PLANET_COUNT
             /\ Len(enemy_planets(state)) <= EARLY_GAME_PLANET_COUNT)

\* The loop of if_high_danger_planet from the owned planets ps still to
\* visit; an exception of danger_level ends the call.
RECURSIVE HighDangerLoop(_, _)
HighDangerLoop(state, ps) ==
    IF ps = <<>> THEN Returned(FALSE)
    ELSE LET d == danger_level(state, Head(ps))
         IN  IF d.raised THEN Raised
             ELSE IF RatGT(d.value, <<DANGER_LEVEL_THRESHOLD, 1>>) THEN Returned(TRUE)
             ELSE HighDangerLoop(state, Tail(ps))

if_high_danger_planet(state) == HighDangerLoop(state, my_planets(state))

\* min(distance(my_planet, enemy) for enemy in enemy_planets), eps not empty.
MinEnemyDistance(state, my_planet, eps) ==
    distance(state, my_planet,
             PyMin(eps, [p \in DOMAIN state.planets |-> distance(state, my_planet, p)]))

needReinforcements(state) ==
    LET ps == my_planets(state)
        front == Filter(ps, {p \in DOMAIN state.planets :
                                 MinEnemyDistance(state, p, enemy_planets(state))
                                     < FRONTLINE_DISTANCE})
    IN  IF Len(ps) < 2 THEN Returned(FALSE)
        ELSE IF enemy_planets(state) = <<>> THEN Returned(FALSE)
        ELSE IF front = <<>> THEN Returned(FALSE)
        ELSE Returned(RatGT(Rat(PlanetShips(state, ps) * FRONTLINE_WEAKNESS_RATIO[1],
                                Len(ps) * FRONTLINE_WEAKNESS_RATIO[2]),
                            Rat(PlanetShips(state, front), Len(front))))

if_has_strong_planet(state) ==
    IF my_planets(state) = <<>> THEN Returned(FALSE)
    ELSE Returned(state.planets[PyMax(my_planets(state), num_ships(state))].num_ships
                      >= STRONG_PLANET_THRESHOLD)

\* ---- bt_bot.py: the leaves of the tree ----------------------------------
enemies_exist(state) == Returned(Len(enemy_planets(state)) > 0)

\* Check(lambda s: len(s.enemy_planets()) == 0)
no_enemies(state) == Returned(Len(enemy_planets(state)) = 0)

\* "Is an attack incoming?"
enemy_fleets_incoming(state) == if_enemy_fleet_incoming(state)

\* "Is any neutral available?"
neutrals_available(state) == if_neutral_planet_available(state)

\* defendUnderAttack / defendAttacked
defend_attacked(state) == defend_under_attack_planet(state)

\* attackBestTarget
constant_attack(state) == attack_best_target(state)

\* Ships of the bot's own fleets already flying to the target.
committed(state, target) ==
    LET fs == Filter(my_fleets(state),
                     {i \in DOMAIN state.fleets :
                          state.fleets[i].destination_planet = target})
    IN  FleetShips(state, fs)

\* expandToValuableNeutral: as expand_to_valuable_neutral, with the ships in
\* flight to the target netted out of the ships required.
expand_neutral(state) ==
    LET strongest_planet == get_strongest_planet(state)
        best_target == find_best_neutral_target(state, strongest_planet)
    IN  IF strongest_planet = None THEN Returned(FALSE)
        ELSE IF state.planets[strongest_planet].num_ships < 15 THEN Returned(FALSE)
        ELSE IF best_target = None THEN Returned(FALSE)
        ELSE LET required_ships == state.planets[best_target].num_ships + 1
                                       - committed(state, best_target)
             IN  IF /\ required_ships > 0
                    /\ state.planets[strongest_planet].num_ships > required_ships + 10
                 THEN issue_order(state, strongest_planet, best_target, required_ships)
                 ELSE Returned(FALSE)

\* ---- bt_nodes: the behaviour-tree engine --------------------------------
Check(fn) == [type |-> "Check", name |-> fn, children |-> <<>>]

Action(fn) == [type |-> "Action", name |-> fn, children |-> <<>>]

Sequence(name, children) == [type |-> "Sequence", name |-> name, children |-> children]

Selector(name, children) == [type |-> "Selector", name |-> name, children |-> children]

\* The function a Check or Action node wraps, applied to the state view;
\* fnf is the outcome of fleets_not_flying on this view.
Leaf(node, state, fnf) ==
    CASE node.name = "fleets_not_flying" -> Returned(fnf)
      [] node.name = "enemy_fleets_incoming" -> enemy_fleets_incoming(state)
      [] node.name = "defend_attacked" -> defend_attacked(state)
      [] node.name = "enemies_exist" -> enemies_exist(state)
      [] node.name = "constant_attack" -> constant_attack(state)
      [] node.name = "no_enemies" -> no_enemies(state)
      [] node.name = "neutrals_available" -> neutrals_available(state)
      [] node.name = "expand_neutral" -> expand_neutral(state)

NoRun(b) == [ret |-> b, orders |-> <<>>, raised |-> FALSE, trace |-> <<>>]

\* r followed by rest.
Then(r, rest) ==
    [ret |-> rest.ret, orders |-> r.orders \o rest.orders,
     raised |-> rest.raised, trace |-> r.trace \o rest.trace]

RECURSIVE Execute(_, _, _)
RECURSIVE SelectorRun(_, _, _)
RECURSIVE SequenceRun(_, _, _)

\* Selector.execute: children left to right, True at the first True child,
\* False when every child returned False.
SelectorRun(children, state, fnf) ==
    IF children = <<>> THEN NoRun(FALSE)
    ELSE LET r == Execute(Head(children), state, fnf)
         IN  IF r.raised \/ r.ret THEN r
             ELSE Then(r, SelectorRun(Tail(children), state, fnf))

\* Sequence.execute: children left to right, False at the first False
\* child, True when every child returned True.
SequenceRun(children, state, fnf) ==
    IF children = <<>> THEN NoRun(TRUE)
    ELSE LET r == Execute(Head(children), state, fnf)
         IN  IF r.raised \/ ~r.ret THEN r
             ELSE Then(r, SequenceRun(Tail(children), state, fnf))

\* node.execute(state): the result, the orders issued and the trace of the
\* nodes evaluated, each entered in the trace when it returns.
Execute(node, state, fnf) ==
    LET r == CASE node.type = "Selector" -> SelectorRun(node.children, state, fnf)
               [] node.type = "Sequence" -> SequenceRun(node.children, state, fnf)
               [] OTHER -> Then(NoRun(TRUE), Leaf(node, state, fnf) @@ [trace |-> <<>>])
    IN  [r EXCEPT !.trace = @ \o <<[name |-> node.name, ret |-> r.ret]>>]

\* ---- bt_bot.py: setup_behavior_tree -------------------------------------
\* The Defend sequence with its Action placed before its Check.
def_seq_action_first ==
    Sequence("Defend", <<Action("defend_attacked"), Check("enemy_fleets_incoming")>>)

def_seq ==
    Sequence("Defend", <<Check("enemy_fleets_incoming"), Action("defend_attacked")>>)

attack_seq ==
    Sequence("Attack", <<Check("enemies_exist"), Action("constant_attack")>>)

expand_seq ==
    Sequence("Expand", <<Check("no_enemies"), Check("neutrals_available"),
                         Action("expand_neutral")>>)

\* The tree with the Attack branch placed before the Defend branch.
setup_behavior_tree_attack_first ==
    Selector("Winner", <<Check("fleets_not_flying"), attack_seq, def_seq, expand_seq>>)

setup_behavior_tree ==
    Selector("Winner", <<Check("fleets_not_flying"), def_seq, attack_seq, expand_seq>>)

\* ---- the state views explored -------------------------------------------
Planet(owner, n, g) == [owner |-> owner, num_ships |-> n, growth_rate |-> g]

Fleet(owner, n, dest, t) ==
    [owner |-> owner, num_ships |-> n, destination_planet |-> dest, turns_remaining |-> t]

\* Planets of the views without fleets: targets whose scores tie (5 ships
\* growth 0 against 7 ships growth 1) and differ.
GeoPlanets ==
    {Planet(ME, n, 0) : n \in {2, 12, 21, 50}}
        \cup {Planet(o, n, g) : o \in {ENEMY, NEUTRAL}, n \in {5, 7}, g \in 0..1}
        \cup {Planet(ENEMY, 20, 0)}

\* Planets of the views with fleets.
FleetPlanets ==
    {Planet(ME, n, 0) : n \in {2, 10, 36, 50}}
        \cup {Planet(ENEMY, 5, 1), Planet(ENEMY, 60, 0), Planet(NEUTRAL, 5, 1)}

\* Planets of the views the tree is evaluated on.
TreePlanets ==
    {Planet(ME, n, 0) : n \in {10, 50}}
        \cup {Planet(ENEMY, 5, 1), Planet(ENEMY, 60, 0), Planet(NEUTRAL, 5, 1)}

FleetKinds ==
    {Fleet(ENEMY, 30, p, 1) : p \in PlanetIDs}
        \cup {Fleet(ENEMY, 6, p, 0) : p \in PlanetIDs}
        \cup {Fleet(ME, 6, p, 1) : p \in PlanetIDs}

Pair(a, b) == IF a < b THEN <<a, b>> ELSE <<b, a>>

\* Every symmetric distance table with distance(a, a) = 0.
Distances ==
    {[a \in PlanetIDs |-> [b \in PlanetIDs |-> IF a = b THEN 0 ELSE u[Pair(a, b)]]] :
        u \in [{Pair(a, b) : a, b \in PlanetIDs} \ {<<a, a>> : a \in PlanetIDs}
                  -> 0..MaxDist]}

\* The planets on a line, one step apart.
LineDistance == [a \in PlanetIDs |-> [b \in PlanetIDs |-> Abs(a - b)]]

PlanetLists(kinds) == [1..Cardinality(PlanetIDs) -> kinds]

FleetLists == UNION {[1..k -> FleetKinds] : k \in 0..MaxFleets}

GeoView ==
    /\ planets \in PlanetLists(GeoPlanets)
    /\ dist \in Distances
    /\ fleets = <<>>

FleetView ==
    /\ planets \in PlanetLists(FleetPlanets)
    /\ dist = LineDistance
    /\ fleets \in FleetLists

TreeView ==
    /\ planets \in PlanetLists(TreePlanets)
    /\ dist = LineDistance
    /\ fleets \in FleetLists

\* The view handed to the functions: PlanetWars(map_data) of this turn.
View == [planets |-> planets, fleets |-> fleets, dist |-> dist]

\* ---- calls --------------------------------------------------------------
NoCall ==
    [op |-> "none", arg |-> None, ret |-> FALSE, orders |-> <<>>, raised |-> FALSE,
     target |-> None, value |-> <<0, 1>>, trace |-> <<>>, fnf |-> FALSE]

\* The call op(arg) made on the view, with its outcome r.
Call(op, arg, r) ==
    /\ last.op = "none"
    /\ last' = [NoCall EXCEPT !.op = op, !.arg = arg, !.ret = r.ret,
                              !.orders = r.orders, !.raised = r.raised]
    /\ UNCHANGED <<planets, fleets, dist>>

Call_attack_weakest_enemy_planet ==
    Call("attack_weakest_enemy_planet", None, attack_weakest_enemy_planet(View))

Call_attack_best_target == Call("attack_best_target", None, attack_best_target(View))

Call_spread_to_weakest_neutral_planet ==
    Call("spread_to_weakest_neutral_planet", None, spread_to_weakest_neutral_planet(View))

Call_expand_to_valuable_neutral ==
    Call("expand_to_valuable_neutral", None, expand_to_valuable_neutral(View))

Call_defend_under_attack_planet ==
    Call("defend_under_attack_planet", None, defend_under_attack_planet(View))

Call_reinforce_frontline == Call("reinforce_frontline", None, reinforce_frontline(View))

ActionsNext ==
    \/ Call_attack_weakest_enemy_planet
    \/ Call_attack_best_target
    \/ Call_spread_to_weakest_neutral_planet
    \/ Call_expand_to_valuable_neutral
    \/ Call_defend_under_attack_planet
    \/ Call_reinforce_frontline

ActionsInit == (GeoView \/ FleetView) /\ last = NoCall

\* The six Actions of behaviors.py, each called on every view.
SpecActions == ActionsInit /\ [][ActionsNext]_vars

\* ---- properties of the Actions ------------------------------------------
ActionNames ==
    {"attack_weakest_enemy_planet", "attack_best_target",
     "spread_to_weakest_neutral_planet", "expand_to_valuable_neutral",
     "defend_under_attack_planet", "reinforce_frontline"}

Owned == {p \in DOMAIN planets : planets[p].owner = ME}

Enemies == {p \in DOMAIN planets : planets[p].owner = ENEMY}

Neutrals == {p \in DOMAIN planets : planets[p].owner = NEUTRAL}

NoOrder == last.orders = <<>> /\ ~last.ret /\ ~last.raised

OneOrder(src, dst, n) ==
    /\ last.orders = <<[src |-> src, dst |-> dst, ships |-> n]>>
    /\ last.ret
    /\ ~last.raised

\* C1: every order an Action of behaviors.py issues has a source planet owned
\* by the bot and a ship count of at least 1 and at most the ships on the
\* source planet.
OrderWithinSource ==
    last.op \in ActionNames =>
        \A i \in DOMAIN last.orders :
            /\ last.orders[i].src \in Owned
            /\ last.orders[i].ships >= 1
            /\ last.orders[i].ships <= planets[last.orders[i].src].num_ships

OrderWithinSourceWitness ==
    /\ last.op = "defend_under_attack_planet"
    /\ Len(last.orders) = 1
    /\ last.orders[1].ships > 5

\* The strongest owned planet: most ships, the first of them in planet order.
Strongest ==
    IF Owned = {} THEN None
    ELSE CHOOSE p \in Owned :
             \A q \in Owned : /\ planets[q].num_ships <= planets[p].num_ships
                              /\ planets[q].num_ships = planets[p].num_ships => p <= q

\* score(src, a) >= score(src, b) for targets at non-zero distance, with
\* score = 3*growth + 2/distance - 1.5*ships, cleared of its denominators.
ScoreGE(src, a, b) ==
    LET da == dist[src][a]
        db == dist[src][b]
    IN  (6 * planets[a].growth_rate - 3 * planets[a].num_ships) * da * db + 4 * db
            >= (6 * planets[b].growth_rate - 3 * planets[b].num_ships) * da * db + 4 * da

\* The candidates that can be selected from src: those at non-zero distance.
Reachable(src, cands) == {t \in cands : dist[src][t] # 0}

\* The first candidate, in planet order, of greatest score from src.
Best(src, cands) ==
    IF src = None \/ Reachable(src, cands) = {} THEN None
    ELSE CHOOSE t \in Reachable(src, cands) :
             \A u \in Reachable(src, cands) :
                 /\ ScoreGE(src, t, u)
                 /\ ScoreGE(src, u, t) => t <= u

\* C2: attack_best_target issues an order iff the strongest owned planet S
\* has at least 10 ships, a best enemy target T exists and
\* S.ships > (T.ships + 1) + 15; the order is then (S, T, T.ships + 1), and
\* otherwise no order is issued and false is returned.
AttackBestTargetOrder ==
    last.op = "attack_best_target" =>
        LET S == Strongest
            T == Best(S, Enemies)
        IN  IF /\ S # None
               /\ planets[S].num_ships >= 10
               /\ T # None
               /\ planets[S].num_ships > (planets[T].num_ships + 1) + 15
            THEN OneOrder(S, T, planets[T].num_ships + 1)
            ELSE NoOrder

\* An order to an enemy planet that is not the first one, chosen among two.
AttackBestTargetWitness ==
    /\ last.op = "attack_best_target"
    /\ Len(last.orders) = 1
    /\ Cardinality(Reachable(Strongest, Enemies)) = 2
    /\ \E e \in Enemies : e < last.orders[1].dst

Incoming(p) ==
    {i \in DOMAIN fleets : fleets[i].owner = ENEMY /\ fleets[i].destination_planet = p}

RECURSIVE SumOver(_, _)
SumOver(f, S) ==
    IF S = {} THEN 0
    ELSE LET x == CHOOSE y \in S : TRUE IN f[x] + SumOver(f, S \ {x})

IncomingShips(p) == SumOver([i \in DOMAIN fleets |-> fleets[i].num_ships], Incoming(p))

\* The owned planets that can reinforce p: not p, more than I + 5 ships.
Reinforcers(p) ==
    {q \in Owned \ {p} : planets[q].num_ships > IncomingShips(p) + 5}

\* The closest of them to p, the first in planet order among the closest.
ClosestReinforcer(p) ==
    CHOOSE q \in Reinforcers(p) :
        \A r \in Reinforcers(p) : /\ dist[p][q] <= dist[p][r]
                                  /\ dist[p][q] = dist[p][r] => q <= r

\* p is attacked by at least its own ships and its closest reinforcer keeps
\* more than 5 ships after sending the deficit plus 5.
Defendable(p) ==
    /\ p \in Owned
    /\ Incoming(p) # {}
    /\ IncomingShips(p) >= planets[p].num_ships
    /\ Reinforcers(p) # {}
    /\ planets[ClosestReinforcer(p)].num_ships
           > (IncomingShips(p) - planets[p].num_ships + 5) + 5

ExpandNetsOutInFlight ==
    last.op = "expand_to_valuable_neutral" =>
        \A i \in DOMAIN last.orders :
            LET T == last.orders[i].dst
            IN  /\ committed(View, T) < planets[T].num_ships + 1
                /\ last.orders[i].ships = planets[T].num_ships + 1 - committed(View, T)

\* ---- target selection ---------------------------------------------------
\* The call op(source) returning a planet or None.
CallTarget(op, source, t) ==
    /\ last.op = "none"
    /\ last' = [NoCall EXCEPT !.op = op, !.arg = source, !.target = t]
    /\ UNCHANGED <<planets, fleets, dist>>

Call_find_best_enemy_target ==
    \E source \in PlanetIDs \cup {None} :
        CallTarget("find_best_enemy_target", source, find_best_enemy_target(View, source))

Call_find_best_neutral_target ==
    \E source \in PlanetIDs \cup {None} :
        CallTarget("find_best_neutral_target", source,
                   find_best_neutral_target(View, source))

ScoreNext == Call_find_best_enemy_target \/ Call_find_best_neutral_target

ScoreInit == GeoView /\ last = NoCall

\* find_best_enemy_target and find_best_neutral_target from every source.
SpecScore == ScoreInit /\ [][ScoreNext]_vars

\* t is the first candidate of greatest score from src: at non-zero
\* distance, scoring at least every selectable candidate and strictly more
\* than every earlier one.
FirstOfGreatestScore(src, t, cands) ==
    /\ t \in cands
    /\ dist[src][t] # 0
    /\ \A u \in Reachable(src, cands) : ScoreGE(src, t, u)
    /\ \A u \in Reachable(src, cands) : u < t => ~ScoreGE(src, u, t)

BestTargetOf(cands) ==
    IF last.arg = None \/ Reachable(last.arg, cands) = {}
    THEN last.target = None
    ELSE FirstOfGreatestScore(last.arg, last.target, cands)

\* C10: find_best_enemy_target and find_best_neutral_target return the first
\* candidate in iteration order of greatest score (a later equal score never
\* replaces it); a candidate at distance 0 is never selected; the result is
\* none when the source is absent, there is no candidate, or every candidate
\* scores minus infinity.
BestTargetFirstMax ==
    /\ last.op = "find_best_enemy_target" => BestTargetOf(Enemies)
    /\ last.op = "find_best_neutral_target" => BestTargetOf(Neutrals)

\* Three enemy candidates: the source itself at distance 0, and two of equal
\* score of which the first is returned.
BestTargetFirstMaxWitness ==
    /\ last.op = "find_best_enemy_target"
    /\ Enemies = PlanetIDs
    /\ last.arg = 1
    /\ last.target = 2
    /\ Reachable(1, Enemies) = {2, 3}
    /\ planets[2] # planets[3]
    /\ ScoreGE(1, 3, 2)

\* ---- Checks and helpers -------------------------------------------------
\* The call danger_level(state, planet).
Call_danger_level ==
    \E planet \in PlanetIDs :
        LET d == danger_level(View, planet)
        IN  /\ last.op = "none"
            /\ last' = [NoCall EXCEPT !.op = "danger_level", !.arg = planet,
                                      !.raised = d.raised, !.value = d.value]
            /\ UNCHANGED <<planets, fleets, dist>>

Call_deployable_planets == Call("deployable_planets", None, deployable_planets(View))

Call_if_neutral_planet_available ==
    Call("if_neutral_planet_available", None, if_neutral_planet_available(View))

Call_have_largest_fleet == Call("have_largest_fleet", None, have_largest_fleet(View))

Call_if_enemy_fleet_incoming ==
    Call("if_enemy_fleet_incoming", None, if_enemy_fleet_incoming(View))

Call_if_strong_enough_to_attack ==
    Call("if_strong_enough_to_attack", None, if_strong_enough_to_attack(View))

Call_if_safe_to_expand == Call("if_safe_to_expand", None, if_safe_to_expand(View))

Call_hard_attack == Call("hard_attack", None, hard_attack(View))

Call_if_early_game == Call("if_early_game", None, if_early_game(View))

Call_if_high_danger_planet ==
    Call("if_high_danger_planet", None, if_high_danger_planet(View))

Call_needReinforcements == Call("needReinforcements", None, needReinforcements(View))

Call_if_has_strong_planet == Call("if_has_strong_planet", None, if_has_strong_planet(View))

ChecksNext ==
    \/ Call_danger_level
    \/ Call_deployable_planets
    \/ Call_if_neutral_planet_available
    \/ Call_have_largest_fleet
    \/ Call_if_enemy_fleet_incoming
    \/ Call_if_strong_enough_to_attack
    \/ Call_if_safe_to_expand
    \/ Call_hard_attack
    \/ Call_if_early_game
    \/ Call_if_high_danger_planet
    \/ Call_needReinforcements
    \/ Call_if_has_strong_planet
    \/ ActionsNext

ChecksInit == FleetView /\ last = NoCall

\* Every Check of checks.py and every Action and helper of behaviors.py,
\* each called on every view with fleets.
SpecChecks == ChecksInit /\ [][ChecksNext]_vars

\* C8: on every state view, the degenerate ones included, every Check, Action
\* and helper completes without raising an error.
NoCallRaises == ~last.raised

RECURSIVE RatSumOver(_, _)
RatSumOver(f, S) ==
    IF S = {} THEN <<0, 1>>
    ELSE LET x == CHOOSE y \in S : TRUE IN RatAdd(f[x], RatSumOver(f, S \ {x}))

\* The sum over every enemy fleet bound for p of 5/(turns+1) + 3*ships/(ships+100).
FleetPart(p) ==
    RatSumOver([i \in DOMAIN fleets |->
                    RatAdd(Rat(5, fleets[i].turns_remaining + 1),
                           Rat(3 * fleets[i].num_ships, fleets[i].num_ships + 100))],
               Incoming(p))

\* The sum over every enemy planet of 3*distance(e, p) + ships(e).
PlanetPart(p) ==
    SumOver([e \in DOMAIN planets |-> 3 * dist[e][p] + planets[e].num_ships], Enemies)

\* C9: danger_level(planet) is the sum of the fleet terms of every enemy
\* fleet bound for the planet plus the sum of the enemy-planet terms; with no
\* incoming fleet it is the enemy-planet sum.
DangerLevelSumsEveryFleet ==
    last.op = "danger_level" =>
        /\ ~last.raised
        /\ last.value = RatAdd(FleetPart(last.arg), Rat(PlanetPart(last.arg), 1))

\* ---- one turn of the tree -----------------------------------------------
\* do_turn: behavior_tree.execute(planet_wars), for either outcome of
\* fleets_not_flying.
ExecuteTree ==
    \E fnf \in BOOLEAN :
        LET r == Execute(setup_behavior_tree, View, fnf)
        IN  /\ last.op = "none"
            /\ last' = [NoCall EXCEPT !.op = "execute", !.ret = r.ret,
                                      !.orders = r.orders, !.raised = r.raised,
                                      !.trace = r.trace, !.fnf = fnf]
            /\ UNCHANGED <<planets, fleets, dist>>

TreeNext == ExecuteTree

TreeInit == TreeView /\ last = NoCall

\* One evaluation of the tree of setup_behavior_tree on every view with fleets.
SpecTree == TreeInit /\ [][TreeNext]_vars

\* The node was evaluated in this turn.
Evaluated(name) == \E i \in DOMAIN last.trace : last.trace[i].name = name

\* The position at which the node returned, and what it returned.
Pos(name) == CHOOSE i \in DOMAIN last.trace : last.trace[i].name = name

Ret(name) == last.trace[Pos(name)].ret

\* The node was evaluated and returned b.
Gave(name, b) == Evaluated(name) /\ Ret(name) = b

\* The node was evaluated at most once.
Once(name) == Cardinality({i \in DOMAIN last.trace : last.trace[i].name = name}) <= 1

\* Child k of a Selector is evaluated exactly when the Selector is and every
\* child before it was evaluated, earlier, and returned false.
SelectorOrder(node) ==
    \A k \in DOMAIN node.children :
        /\ Once(node.children[k].name)
        /\ Evaluated(node.children[k].name) <=>
               /\ Evaluated(node.name)
               /\ \A j \in 1..(k - 1) : Gave(node.children[j].name, FALSE)
        /\ Evaluated(node.children[k].name) =>
               \A j \in 1..(k - 1) : Pos(node.children[j].name) < Pos(node.children[k].name)

\* A Selector returns true iff a child it evaluated returned true, and false
\* only when every child was evaluated and returned false.
SelectorResult(node) ==
    Evaluated(node.name) =>
        /\ Ret(node.name) <=> \E k \in DOMAIN node.children : Gave(node.children[k].name, TRUE)
        /\ ~Ret(node.name) => \A k \in DOMAIN node.children : Gave(node.children[k].name, FALSE)

\* C5: a Selector visits its children left to right and stops at the first
\* that returns true, returning true (no later child is evaluated, so none
\* issues an order); it returns false only when every child returned false.
\* In the root Selector the Attack branch is evaluated only if the Defend
\* branch returned false, and the Expand branch only if both returned false.
SelectorStopsAtFirstTrue ==
    last.op = "execute" =>
        /\ SelectorOrder(setup_behavior_tree)
        /\ SelectorResult(setup_behavior_tree)
        /\ Evaluated("Attack") => Gave("Defend", FALSE) /\ Pos("Defend") < Pos("Attack")
        /\ Evaluated("Expand") => Gave("Defend", FALSE) /\ Gave("Attack", FALSE)
        /\ Gave("Defend", TRUE) =>
               /\ ~Evaluated("constant_attack") /\ ~Evaluated("expand_neutral")
               /\ \A i \in DOMAIN last.orders : last.orders[i].dst \in Owned

\* The Defend branch succeeded on a view where the attack would have issued
\* an order too.
SelectorStopsAtFirstTrueWitness ==
    /\ last.op = "execute"
    /\ Gave("Defend", TRUE)
    /\ ~Evaluated("Attack")
    /\ constant_attack(View).ret
    /\ Gave("Winner", TRUE)

\* Child k of a Sequence is evaluated exactly when the Sequence is and every
\* child before it was evaluated, earlier, and returned true.
SequenceOrder(node) ==
    \A k \in DOMAIN node.children :
        /\ Once(node.children[k].name)
        /\ Evaluated(node.children[k].name) <=>
               /\ Evaluated(node.name)
               /\ \A j \in 1..(k - 1) : Gave(node.children[j].name, TRUE)
        /\ Evaluated(node.children[k].name) =>
               \A j \in 1..(k - 1) : Pos(node.children[j].name) < Pos(node.children[k].name)

\* A Sequence returns true iff every child was evaluated and returned true.
SequenceResult(node) ==
    Evaluated(node.name) =>
        (Ret(node.name) <=> \A k \in DOMAIN node.children : Gave(node.children[k].name, TRUE))

\* C6: a Sequence visits its children left to right and stops at the first
\* that returns false, returning false; the Action after the Checks of the
\* Defend, Attack and Expand sequences never runs, and issues no order, when
\* a preceding Check is false; a Sequence returns true only if every child did.
SequenceStopsAtFirstFalse ==
    last.op = "execute" =>
        /\ \A seq \in {def_seq, attack_seq, expand_seq} :
               SequenceOrder(seq) /\ SequenceResult(seq)
        /\ Evaluated("defend_attacked") => Gave("enemy_fleets_incoming", TRUE)
        /\ Evaluated("constant_attack") => Gave("enemies_exist", TRUE)
        /\ Evaluated("expand_neutral") =>
               Gave("no_enemies", TRUE) /\ Gave("neutrals_available", TRUE)
        /\ (\A a \in {"defend_attacked", "constant_attack", "expand_neutral"} :
                ~Evaluated(a)) => last.orders = <<>>

\* The first Check of the Expand sequence was false: its second Check and
\* its Action, which would have issued an order on this view, did not run.
SequenceStopsAtFirstFalseWitness ==
    /\ last.op = "execute"
    /\ Gave("no_enemies", FALSE)
    /\ Gave("Expand", FALSE)
    /\ ~Evaluated("neutrals_available")
    /\ ~Evaluated("expand_neutral")
    /\ expand_neutral(View).ret
    /\ last.orders = <<>>

\* The branch's Checks all pass and its Action issues an order.
DefendWins == enemy_fleets_incoming(View).ret /\ defend_attacked(View).ret

AttackWins == enemies_exist(View).ret /\ constant_attack(View).ret

ExpandWins ==
    no_enemies(View).ret /\ neutrals_available(View).ret /\ expand_neutral(View).ret

\* C7: one evaluation of the tree issues at most one order: that of the
\* highest-priority branch whose Checks all pass and whose Action succeeds; a
\* branch whose Check passes but whose Action issues no order returns false
\* and the Selector goes on to the next branch.
AtMostOneOrderPerTurn ==
    last.op = "execute" =>
        /\ Len(last.orders) <= 1
        /\ last.orders =
               IF last.fnf THEN <<>>
               ELSE IF DefendWins THEN defend_attacked(View).orders
               ELSE IF AttackWins THEN constant_attack(View).orders
               ELSE IF ExpandWins THEN expand_neutral(View).orders
               ELSE <<>>
        /\ last.ret <=> (last.fnf \/ Len(last.orders) = 1)
        /\ \A seq \in {def_seq, attack_seq, expand_seq} :
               (/\ Evaluated(seq.name)
                /\ \E k \in DOMAIN seq.children : Gave(seq.children[k].name, FALSE))
                   => Gave(seq.name, FALSE)

\* The Defend Check passed, its Action issued nothing, and the order of the
\* turn came from the Attack branch.
AtMostOneOrderPerTurnWitness ==
    /\ last.op = "execute"
    /\ Gave("enemy_fleets_incoming", TRUE)
    /\ Gave("defend_attacked", FALSE)
    /\ Gave("Defend", FALSE)
    /\ Gave("Attack", TRUE)
    /\ Len(last.orders) = 1
    /\ planets[last.orders[1].dst].owner = ENEMY

\* ---- reserve left at the source -----------------------------------------
\* The ships the order leaves on its source planet.
Reserve(o) == planets[o.src].num_ships - o.ships

\* C11: every order an Action of behaviors.py issues leaves more than 5
\* ships at its source: more than 15 for attack_best_target, more than 10 for
\* expand_to_valuable_neutral and attack_weakest_enemy_planet, more than 5
\* for spread_to_weakest_neutral_planet and defend_under_attack_planet, and
\* at least 10 for reinforce_frontline, which sends min(source.ships - 10, 20)
\* ships and only when that exceeds 5.
MinimumKeepReserve ==
    last.op \in ActionNames =>
        \A i \in DOMAIN last.orders :
            LET o == last.orders[i]
            IN  /\ Reserve(o) > 5
                /\ last.op = "attack_best_target" => Reserve(o) > 15
                /\ last.op = "expand_to_valuable_neutral" => Reserve(o) > 10
                /\ last.op = "attack_weakest_enemy_planet" => Reserve(o) > 10
                /\ last.op = "spread_to_weakest_neutral_planet" => Reserve(o) > 5
                /\ last.op = "defend_under_attack_planet" => Reserve(o) > 5
                /\ last.op = "reinforce_frontline" =>
                       /\ Reserve(o) >= 10
                       /\ o.ships > 5
                       /\ o.ships = IF planets[o.src].num_ships - 10 < 20
                                    THEN planets[o.src].num_ships - 10 ELSE 20

\* reinforce_frontline sent all but 10 of the source's ships, fewer than 20.
MinimumKeepReserveWitness ==
    /\ last.op = "reinforce_frontline"
    /\ Len(last.orders) = 1
    /\ Reserve(last.orders[1]) = 10
    /\ last.orders[1].ships < 20

====
